---- MODULE Spec2Model ----
(***************************************************************************)
(* Model of mp4_to_h264_gpu_with_log.py: the batch loop of main(), one     *)
(* job of compress_video(), the outcome log, and the external encoding     *)
(* processes that compress_video() launches and supervises through their   *)
(* diagnostic stream (Spec, FairSpec); compress_video() called without     *)
(* main's look into the skipped area (DirectSpec); and the helper          *)
(* functions parse_time() and get_gpu_type() called on their own (FnSpec). *)
(*                                                                         *)
(* Sizes are in hundredths of a megabyte, the unit the log rounds to, so   *)
(* round(x, 2) is exact on every size of the model.  Filesystem calls fail *)
(* only for reasons the program itself creates: a path that does not       *)
(* exist, or (on Windows) a file that a still-running encoder holds open.  *)
(* Writes to the log are taken to succeed.  Numbers are modelled by value: *)
(* the int 0 and the float 0.0 of the script are the same size.            *)
(***************************************************************************)
EXTENDS Integers, Sequences, FiniteSets, TLC

\* ------------------------------------------------------------- bounds
\* Batch runs (calls of main) in one behaviour.
MaxRuns == 2
\* Largest size of a source or destination file.
MaxSrc == 1
\* Unread lines the diagnostic pipe can hold.
MaxPipe == 1
\* Empty reads that are counted; further ones change nothing.
MaxEmptyReads == 1

\* The *.mp4 names that may lie in the working directory.
Names == {"a.mp4", "b.mp4"}

Platforms == {"posix", "windows"}

\* Kinds of line the encoder can write to its diagnostic stream:
\*   dur          contains 'Duration: <time>,'
\*   durnospace   contains 'Duration:' not followed by a blank
\*   time         contains 'time=<time> '
\*   timeempty    contains 'time=' followed by white space only
\*   other        contains neither marker
\*   undecodable  holds bytes that are not UTF-8
LineKinds == {"dur", "durnospace", "time", "timeempty", "other", "undecodable"}

NoFile == -1
Unset == -1
RcNone == -1
SrcSizes == 0..MaxSrc
OutSizes == 0..MaxSrc

VARIABLES
    platform,    \* operating system the script runs on
    workDir,     \* working directory: name -> "absent" | "file" | "dangling"
    srcSize,     \* size of the source file of each name
    skippedDir,  \* names present in ./skipped
    outDir,      \* size of ./compressed/compressed_<name>, or NoFile
    logFile,     \* processing_log.csv: sequence of rows, <<>> with logExists FALSE when absent
    logExists,
    proc,        \* encoder process of each name: "none" | "running" | "closed" | "exited"
    rc,          \* exit status of the encoder process of each name, RcNone while alive
    fd,          \* destination handle of the process: "none" | "open" | "unlinked"
    pipe,        \* unread lines of the supervised process's stderr
    run,         \* number of batch runs started
    mainPc,      \* position of main()
    files,       \* main(): the enumerated candidates
    idx,         \* main(): index of the current candidate
    pbar,        \* main(): pbar_total.n
    cvPc,        \* position of compress_video()
    origSize,    \* compress_video(): original_size, Unset while not assigned
    duration,    \* compress_video(): "unknown" | "known"
    result,      \* value returned by compress_video(): <<orig, compr, skipped>>
    emptyReads,  \* empty reads of the current job so far (saturating)
    outcome,     \* this run: path each candidate's job ended on
    rowsRun,     \* this run: rows appended to the log for each candidate
    endsRun,     \* this run: times each candidate's iteration ended
    intJob,      \* name whose half-written job an interrupt cut short, "" if none
    prev,        \* what the run before left: partition, completion, outcomes
    call         \* a call of parse_time or get_gpu_type on its own: [fn, arg, ret]

vars == <<platform, workDir, srcSize, skippedDir, outDir, logFile, logExists,
          proc, rc, fd, pipe, run, mainPc, files, idx, pbar, cvPc,
          origSize, duration, result, emptyReads, outcome, rowsRun, endsRun,
          intJob, prev, call>>

fsVars == <<workDir, skippedDir, outDir>>
procVars == <<proc, rc, fd, pipe>>
logVars == <<logFile, logExists>>
mainVars == <<run, mainPc, files, idx, pbar>>
cvVars == <<cvPc, origSize, duration, result, emptyReads>>
histVars == <<outcome, rowsRun, endsRun, intJob, prev>>

\* ------------------------------------------------------------ helpers
Alive(f) == proc[f] \in {"running", "closed"}

\* os.path.exists(input_path): false for a dangling link as for no entry.
InputExists(f) == workDir[f] = "file"

\* A faulty InSkipped: the skipped area is never consulted.
InSkippedNever(f) == FALSE

\* os.path.exists(os.path.join('skipped', filename))
InSkipped(f) == f \in skippedDir

\* os.path.exists(output_path)
OutputExists(f) == outDir[f] # NoFile

\* The orderings os.listdir may return for a set of names.
Orderings(S) ==
    {s \in [1..Cardinality(S) -> S] : \A i, j \in 1..Cardinality(S) : s[i] = s[j] => i = j}

\* f.lower().endswith('.mp4') and not f.startswith('compressed_'): every
\* name of Names passes; an entry is listed whether or not its target exists.
Candidates == {f \in Names : workDir[f] # "absent"}

HeaderRow == [hdr |-> TRUE, file |-> "Filename", orig |-> 0, compr |-> 0,
              ratio |-> 0, skipped |-> 0]

\* compression_ratio of log_to_csv, in hundredths of a percent.
Ratio(orig, compr) ==
    IF orig > 0 THEN 10000 - ((compr * 10000) \div orig) ELSE 0

\* The row log_to_csv appends.
LogRow(f, orig, compr, skipped) ==
    [hdr |-> FALSE, file |-> f, orig |-> orig, compr |-> compr,
     ratio |-> Ratio(orig, compr), skipped |-> IF skipped THEN 1 ELSE 0]

cur == files[idx]

NoOutcome == [f \in Names |-> "none"]
Zero == [f \in Names |-> 0]

\* The partition of the names between ./skipped and ./compressed.
Partition == [skipped |-> skippedDir,
              compressed |-> {f \in Names : outDir[f] # NoFile}]

\* What a batch run that starts now inherits from the run before.
Inherited == [part |-> Partition,
              done |-> mainPc \in {"done", "empty"},
              outcome |-> outcome]

\* No call of a helper function on its own is under way.
NoCall == [fn |-> "none", arg |-> <<>>, ret |-> <<>>]

\* --------------------------------------------------------------- Init
Init ==
    /\ platform \in Platforms
    /\ workDir \in [Names -> {"absent", "file", "dangling"}]
    /\ srcSize \in [Names -> SrcSizes]
    /\ \A f \in Names : workDir[f] # "file" => srcSize[f] = 0
    /\ skippedDir \in SUBSET Names
    /\ outDir = [f \in Names |-> NoFile]
    /\ logFile = <<>>
    /\ logExists = FALSE
    /\ proc = [f \in Names |-> "none"]
    /\ rc = [f \in Names |-> RcNone]
    /\ fd = [f \in Names |-> "none"]
    /\ pipe = <<>>
    /\ run = 0
    /\ mainPc = "idle"
    /\ files = <<>>
    /\ idx = 1
    /\ pbar = 0
    /\ cvPc = "none"
    /\ origSize = Unset
    /\ duration = "unknown"
    /\ result = <<0, 0, FALSE>>
    /\ emptyReads = 0
    /\ outcome = NoOutcome
    /\ rowsRun = Zero
    /\ endsRun = Zero
    /\ intJob = ""
    /\ prev = [part |-> Partition, done |-> FALSE, outcome |-> NoOutcome]
    /\ call = NoCall

\* ------------------------------------------------------------- main()
\* A faulty init_log_file: the log is opened for writing on every run.
init_log_file_rewrites ==
    /\ logFile' = <<HeaderRow>>
    /\ logExists' = TRUE

\* init_log_file: write the header only when the log does not exist.
init_log_file ==
    IF logExists
        THEN UNCHANGED logVars
        ELSE /\ logFile' = <<HeaderRow>>
             /\ logExists' = TRUE

BatchOver == mainPc \in {"idle", "done", "empty", "aborted"}

\* main() up to the loop, with files to process.
StartBatch ==
    /\ BatchOver
    /\ run < MaxRuns
    /\ Candidates # {}
    /\ init_log_file
    /\ \E order \in Orderings(Candidates) : files' = order
    /\ run' = run + 1
    /\ idx' = 1
    /\ pbar' = 0
    /\ mainPc' = "loop"
    /\ outcome' = NoOutcome
    /\ rowsRun' = Zero
    /\ endsRun' = Zero
    /\ intJob' = ""
    /\ prev' = Inherited
    /\ UNCHANGED <<call, platform, srcSize, fsVars, procVars, cvVars>>

\* main() returning early: "no files to process".
StartBatchNoFiles ==
    /\ BatchOver
    /\ run < MaxRuns
    /\ Candidates = {}
    /\ init_log_file
    /\ files' = <<>>
    /\ run' = run + 1
    /\ idx' = 1
    /\ pbar' = 0
    /\ mainPc' = "empty"
    /\ outcome' = NoOutcome
    /\ rowsRun' = Zero
    /\ endsRun' = Zero
    /\ intJob' = ""
    /\ prev' = Inherited
    /\ UNCHANGED <<call, platform, srcSize, fsVars, procVars, cvVars>>

\* A faulty ForSkip: the candidate found in ./skipped is logged as well.
ForSkipLogs ==
    /\ mainPc = "loop"
    /\ idx <= Len(files)
    /\ InSkipped(cur)
    /\ pbar' = pbar + 2
    /\ idx' = idx + 1
    /\ outcome' = [outcome EXCEPT ![cur] = "already"]
    /\ endsRun' = [endsRun EXCEPT ![cur] = @ + 1]
    /\ logFile' = Append(logFile, LogRow(cur, 0, 0, TRUE))
    /\ UNCHANGED <<call, platform, srcSize, fsVars, procVars, logExists, run,
                   mainPc, files, cvVars, rowsRun, intJob, prev>>

\* Loop body for a candidate found in ./skipped: update(1), continue, and
\* the finally clause's update(1) on the way out of the try statement.
ForSkip ==
    /\ mainPc = "loop"
    /\ idx <= Len(files)
    /\ InSkipped(cur)
    /\ pbar' = pbar + 2
    /\ idx' = idx + 1
    /\ outcome' = [outcome EXCEPT ![cur] = "already"]
    /\ endsRun' = [endsRun EXCEPT ![cur] = @ + 1]
    /\ UNCHANGED <<call, platform, srcSize, fsVars, procVars, logVars, run, mainPc,
                   files, cvVars, rowsRun, intJob, prev>>

\* Loop body calling compress_video.
ForCall ==
    /\ mainPc = "loop"
    /\ idx <= Len(files)
    /\ ~InSkipped(cur)
    /\ mainPc' = "job"
    /\ cvPc' = "entry"
    /\ origSize' = Unset
    /\ duration' = "unknown"
    /\ emptyReads' = 0
    /\ UNCHANGED <<call, platform, srcSize, fsVars, procVars, logVars, run, files,
                   idx, pbar, result, histVars>>

\* --------------------------------------------------- compress_video()
\* Leaving compress_video, by return or by an exception: its locals and
\* the Popen object with its pipe are gone; an encoder that is still alive
\* stays alive.
Leave(to, res, how) ==
    /\ mainPc' = to
    /\ cvPc' = "none"
    /\ result' = res
    /\ outcome' = [outcome EXCEPT ![cur] = how]
    /\ pipe' = <<>>
    /\ origSize' = Unset
    /\ duration' = "unknown"
    /\ emptyReads' = 0
    /\ proc' = IF proc[cur] = "exited" THEN [proc EXCEPT ![cur] = "none"] ELSE proc
    /\ rc' = [rc EXCEPT ![cur] = RcNone]

\* return res
Return(res, how) == Leave("returned", res, how)

\* An exception raised inside the try block: control goes to the handler.
Raise ==
    /\ cvPc' = "handler"
    /\ UNCHANGED <<mainPc, result, outcome>>

\* Entry checks, original_size, and Popen.  A second encoder for a name is
\* started only once an earlier one for that name has exited.
CvEntry ==
    /\ mainPc = "job"
    /\ cvPc = "entry"
    /\ ~Alive(cur)
    /\ IF ~InputExists(cur)
         THEN /\ Raise
              /\ UNCHANGED <<origSize, duration, emptyReads, procVars>>
         ELSE IF InSkipped(cur)
           THEN /\ Return(<<0, 0, TRUE>>, "already_cv")
                /\ UNCHANGED fd
           ELSE /\ origSize' = srcSize[cur]
                /\ proc' = [proc EXCEPT ![cur] = "running"]
                /\ rc' = [rc EXCEPT ![cur] = RcNone]
                /\ fd' = [fd EXCEPT ![cur] = "none"]
                /\ pipe' = <<>>
                /\ cvPc' = "duration"
                /\ UNCHANGED <<mainPc, result, outcome, duration, emptyReads>>
    /\ UNCHANGED <<call, platform, srcSize, fsVars, logVars, run, files, idx, pbar,
                   rowsRun, endsRun, intJob, prev>>

\* What the duration loop does with a line it has read.
DurationStep(line) ==
    CASE line \in {"undecodable", "durnospace"} -> "raise"
      [] line = "dur" -> "break"
      [] OTHER -> "loop"

\* Duration loop, readline returning a line.
DurationLine ==
    /\ mainPc = "job"
    /\ cvPc = "duration"
    /\ pipe # <<>>
    /\ pipe' = Tail(pipe)
    /\ LET step == DurationStep(Head(pipe)) IN
         /\ cvPc' = CASE step = "raise" -> "handler"
                      [] step = "break" -> "progress"
                      [] OTHER -> "duration"
         /\ duration' = IF step = "break" THEN "known" ELSE duration
    /\ UNCHANGED <<call, platform, srcSize, fsVars, logVars, proc, rc, fd,
                   mainVars, origSize, result, emptyReads, histVars>>

\* Where the duration loop goes on an empty read (end of stream).
DurationAfterEof == "duration"

\* Duration loop, readline returning '' at end of stream: 'Duration:' is
\* not in the empty string, and the loop has no other exit.
DurationEof ==
    /\ mainPc = "job"
    /\ cvPc = "duration"
    /\ pipe = <<>>
    /\ proc[cur] # "running"
    /\ cvPc' = DurationAfterEof
    /\ emptyReads' = IF emptyReads < MaxEmptyReads THEN emptyReads + 1 ELSE emptyReads
    /\ UNCHANGED <<call, platform, srcSize, fsVars, logVars, procVars, mainVars,
                   origSize, duration, result, histVars>>

\* What the progress loop does with a non-empty line.
ProgressStep(line) ==
    CASE line \in {"undecodable", "timeempty"} -> "raise"
      [] OTHER -> "loop"

\* Progress loop, readline returning a line.
ProgressLine ==
    /\ mainPc = "job"
    /\ cvPc = "progress"
    /\ pipe # <<>>
    /\ pipe' = Tail(pipe)
    /\ cvPc' = IF ProgressStep(Head(pipe)) = "raise" THEN "handler" ELSE "progress"
    /\ UNCHANGED <<call, platform, srcSize, fsVars, logVars, proc, rc, fd,
                   mainVars, origSize, duration, result, emptyReads, histVars>>

\* A faulty ProgressEofAlive: the loop leaves on any empty read.
ProgressEofAliveBreaks ==
    /\ mainPc = "job"
    /\ cvPc = "progress"
    /\ pipe = <<>>
    /\ proc[cur] = "closed"
    /\ cvPc' = "check"
    /\ UNCHANGED <<call, platform, srcSize, fsVars, logVars, procVars, mainVars,
                   origSize, duration, result, emptyReads, histVars>>

\* Progress loop, empty read while poll() is None: go round again.
ProgressEofAlive ==
    /\ mainPc = "job"
    /\ cvPc = "progress"
    /\ pipe = <<>>
    /\ proc[cur] = "closed"
    /\ emptyReads' = IF emptyReads < MaxEmptyReads THEN emptyReads + 1 ELSE emptyReads
    /\ UNCHANGED <<call, platform, srcSize, fsVars, logVars, procVars, mainVars,
                   cvPc, origSize, duration, result, histVars>>

\* Progress loop, empty read with the process terminated: break.
ProgressEofExited ==
    /\ mainPc = "job"
    /\ cvPc = "progress"
    /\ pipe = <<>>
    /\ proc[cur] = "exited"
    /\ cvPc' = "check"
    /\ UNCHANGED <<call, platform, srcSize, fsVars, logVars, procVars, mainVars,
                   origSize, duration, result, emptyReads, histVars>>

\* compressed_size >= original_size
Ineffective(compressed, original) == compressed >= original

\* A faulty CheckResult: an ineffective encode removes the source too.
CheckResultRemovesSource ==
    /\ mainPc = "job"
    /\ cvPc = "check"
    /\ IF rc[cur] # 0 \/ ~OutputExists(cur)
         THEN /\ Raise
              /\ UNCHANGED <<fsVars, proc, rc, pipe, origSize, duration, emptyReads>>
         ELSE IF Ineffective(outDir[cur], origSize)
           THEN /\ outDir' = [outDir EXCEPT ![cur] = NoFile]
                /\ workDir' = [workDir EXCEPT ![cur] = "absent"]
                /\ skippedDir' = skippedDir
                /\ Return(<<origSize, origSize, TRUE>>, "ineffective")
           ELSE /\ Return(<<origSize, outDir[cur], FALSE>>, "compressed")
                /\ UNCHANGED fsVars
    /\ UNCHANGED <<call, platform, srcSize, logVars, fd, run, files, idx, pbar,
                   rowsRun, endsRun, intJob, prev>>

\* After the loops: return code, size of the destination, effectiveness.
CheckResult ==
    /\ mainPc = "job"
    /\ cvPc = "check"
    /\ IF rc[cur] # 0 \/ ~OutputExists(cur)
         THEN /\ Raise
              /\ UNCHANGED <<fsVars, proc, rc, pipe, origSize, duration, emptyReads>>
         ELSE IF Ineffective(outDir[cur], origSize)
           THEN /\ outDir' = [outDir EXCEPT ![cur] = NoFile]
                /\ workDir' = [workDir EXCEPT ![cur] = "absent"]
                /\ skippedDir' = skippedDir \cup {cur}
                /\ Return(<<origSize, origSize, TRUE>>, "ineffective")
           ELSE /\ Return(<<origSize, outDir[cur], FALSE>>, "compressed")
                /\ UNCHANGED fsVars
    /\ UNCHANGED <<call, platform, srcSize, logVars, fd, run, files, idx, pbar,
                   rowsRun, endsRun, intJob, prev>>

\* os.remove(output_path) fails on Windows while the encoder has it open.
RemoveFails(f) == platform = "windows" /\ fd[f] = "open"

\* os.rename(input_path, ...) fails on Windows while the encoder has the
\* source open, which it has from launch to exit.
RenameFails(f) == platform = "windows" /\ Alive(f)

\* The except clause: remove the destination if it exists, move the source
\* to ./skipped if it exists, return (original_size or 0, 0, True).  An
\* error of either call leaves compress_video as an exception.
Handler ==
    /\ mainPc = "job"
    /\ cvPc = "handler"
    /\ LET removing == OutputExists(cur)
           removed == removing /\ ~RemoveFails(cur)
           renaming == (~removing \/ removed) /\ InputExists(cur)
           renamed == renaming /\ ~RenameFails(cur)
           raised == (removing /\ ~removed) \/ (renaming /\ ~renamed)
       IN
         /\ outDir' = IF removed THEN [outDir EXCEPT ![cur] = NoFile] ELSE outDir
         /\ fd' = IF removed /\ fd[cur] = "open"
                    THEN [fd EXCEPT ![cur] = "unlinked"] ELSE fd
         /\ workDir' = IF renamed THEN [workDir EXCEPT ![cur] = "absent"] ELSE workDir
         /\ skippedDir' = IF renamed THEN skippedDir \cup {cur} ELSE skippedDir
         /\ IF raised
              THEN Leave("raised", result, "failed")
              ELSE Return(<<IF origSize # Unset THEN origSize ELSE 0, 0, TRUE>>,
                          "failed")
    /\ UNCHANGED <<call, platform, srcSize, logVars, run, files, idx, pbar, rowsRun,
                   endsRun, intJob, prev>>

\* ------------------------------------------------- main(), after the job
\* Rows main appends once compress_video has returned: the row of the
\* result, and the except clause's row if the ratio of the success message
\* divides by zero.
RowsOnReturn(f, res) ==
    IF ~res[3] /\ res[1] = 0
      THEN <<LogRow(f, res[1], res[2], res[3]), LogRow(f, 0, 0, TRUE)>>
      ELSE <<LogRow(f, res[1], res[2], res[3])>>

\* The outcome line main prints for a returned result.
Message(res) == IF res[3] THEN "skipped_ineffective" ELSE "success"

\* log_to_csv of the result, the outcome line, and finally: update(1).
MainLog ==
    /\ mainPc = "returned"
    /\ logFile' = logFile \o RowsOnReturn(cur, result)
    /\ logExists' = TRUE
    /\ rowsRun' = [rowsRun EXCEPT ![cur] = @ + Len(RowsOnReturn(cur, result))]
    /\ endsRun' = [endsRun EXCEPT ![cur] = @ + 1]
    /\ pbar' = pbar + 1
    /\ idx' = idx + 1
    /\ mainPc' = "loop"
    /\ result' = <<0, 0, FALSE>>
    /\ UNCHANGED <<call, platform, srcSize, fsVars, procVars, run, files, cvPc,
                   origSize, duration, emptyReads, outcome, intJob, prev>>

\* A faulty RowsOnExcept: the except clause logs nothing.
RowsOnExceptNone(f) == <<>>

\* Rows the except clause of main appends.
RowsOnExcept(f) == <<LogRow(f, 0, 0, TRUE)>>

\* except Exception in main: error line, log_to_csv(file, 0, 0, True), and
\* finally: update(1).
MainExcept ==
    /\ mainPc = "raised"
    /\ logFile' = logFile \o RowsOnExcept(cur)
    /\ logExists' = TRUE
    /\ rowsRun' = [rowsRun EXCEPT ![cur] = @ + Len(RowsOnExcept(cur))]
    /\ endsRun' = [endsRun EXCEPT ![cur] = @ + 1]
    /\ pbar' = pbar + 1
    /\ idx' = idx + 1
    /\ mainPc' = "loop"
    /\ UNCHANGED <<call, platform, srcSize, fsVars, procVars, run, files, cvVars,
                   outcome, intJob, prev>>

\* The loop is exhausted: the final summary is written.
EndBatch ==
    /\ mainPc = "loop"
    /\ idx > Len(files)
    /\ mainPc' = "done"
    /\ UNCHANGED <<call, platform, srcSize, fsVars, procVars, logVars, run, files,
                   idx, pbar, cvVars, histVars>>

\* Ctrl-C while compress_video reads the stream.  KeyboardInterrupt is not
\* an Exception, so neither except clause runs; finally: update(1) does, and
\* main ends with the interrupt.  The terminal sends the signal to every
\* process of the foreground group, so each encoder that is alive stops
\* writing and exits; what it has written of its destination stays where
\* it is.
Interrupt ==
    /\ mainPc = "job"
    /\ cvPc \in {"duration", "progress"}
    /\ mainPc' = "aborted"
    /\ cvPc' = "none"
    /\ outcome' = [outcome EXCEPT ![cur] = "interrupted"]
    /\ pipe' = <<>>
    /\ origSize' = Unset
    /\ duration' = "unknown"
    /\ emptyReads' = 0
    /\ proc' = [f \in Names |-> "none"]
    /\ rc' = [f \in Names |-> RcNone]
    /\ fd' = [f \in Names |-> "none"]
    /\ pbar' = pbar + 1
    /\ intJob' = IF Alive(cur) /\ fd[cur] = "open" THEN cur ELSE ""
    /\ UNCHANGED <<call, platform, srcSize, fsVars, logVars, run, files, idx, result,
                   rowsRun, endsRun, prev>>

\* ------------------------------------------------ the encoder processes
\* The process whose stderr compress_video is reading.
Supervised(f) ==
    /\ mainPc = "job"
    /\ cvPc \in {"duration", "progress"}
    /\ f = cur

\* The encoder writes a line to its diagnostic stream.
ProcEmit(f, k) ==
    /\ proc[f] = "running"
    /\ Supervised(f)
    /\ Len(pipe) < MaxPipe
    /\ pipe' = Append(pipe, k)
    /\ UNCHANGED <<call, platform, srcSize, fsVars, logVars, proc, rc, fd,
                   mainVars, cvVars, histVars>>

\* The encoder opens its destination (-y: created or truncated).
ProcOpenOut(f) ==
    /\ Alive(f)
    /\ fd[f] = "none"
    /\ fd' = [fd EXCEPT ![f] = "open"]
    /\ outDir' = [outDir EXCEPT ![f] = 0]
    /\ UNCHANGED <<call, platform, srcSize, workDir, skippedDir, logVars, proc, rc,
                   pipe, mainVars, cvVars, histVars>>

\* The encoder writes to its destination.
ProcWrite(f) ==
    /\ Alive(f)
    /\ fd[f] = "open"
    /\ outDir[f] + 1 \in OutSizes
    /\ outDir' = [outDir EXCEPT ![f] = @ + 1]
    /\ UNCHANGED <<call, platform, srcSize, workDir, skippedDir, logVars, procVars,
                   mainVars, cvVars, histVars>>

\* The encoder closes its diagnostic stream.
ProcCloseErr(f) ==
    /\ proc[f] = "running"
    /\ proc' = [proc EXCEPT ![f] = "closed"]
    /\ UNCHANGED <<call, platform, srcSize, fsVars, logVars, rc, fd, pipe,
                   mainVars, cvVars, histVars>>

\* The process the running job has launched and still holds.
Owned(f) ==
    /\ mainPc = "job"
    /\ cvPc \in {"duration", "progress", "check", "handler"}
    /\ f = cur

\* The encoder terminates with an exit status.  Only the job that launched
\* it can see the status; a process no job holds is gone once it exits.
ProcExit(f, code) ==
    /\ proc[f] = "closed"
    /\ proc' = [proc EXCEPT ![f] = IF Owned(f) THEN "exited" ELSE "none"]
    /\ rc' = [rc EXCEPT ![f] = IF Owned(f) THEN code ELSE RcNone]
    /\ fd' = [fd EXCEPT ![f] = "none"]
    /\ UNCHANGED <<call, platform, srcSize, fsVars, logVars, pipe, mainVars, cvVars,
                   histVars>>

\* ------------------------------------------------------ specification
Program ==
    \/ ForSkip
    \/ ForCall
    \/ CvEntry
    \/ DurationLine
    \/ DurationEof
    \/ ProgressLine
    \/ ProgressEofAlive
    \/ ProgressEofExited
    \/ CheckResult
    \/ Handler
    \/ MainLog
    \/ MainExcept
    \/ EndBatch

Encoder(f) ==
    \/ \E k \in LineKinds : ProcEmit(f, k)
    \/ ProcOpenOut(f)
    \/ ProcWrite(f)
    \/ ProcCloseErr(f)
    \/ \E code \in {0, 1} : ProcExit(f, code)

Next ==
    \/ StartBatch
    \/ StartBatchNoFiles
    \/ Program
    \/ Interrupt
    \/ \E f \in Names : Encoder(f)

Spec == Init /\ [][Next]_vars

\* The script is one thread that always takes its next step; an encoder
\* closes its stream and terminates in the end.  Nothing obliges the user
\* to start a batch or to interrupt one.
FairSpec ==
    /\ Init
    /\ [][Next]_vars
    /\ WF_vars(Program)
    /\ \A f \in Names : WF_vars(ProcCloseErr(f))
    /\ \A f \in Names : WF_vars(\E code \in {0, 1} : ProcExit(f, code))

\* --------------------------------------- compress_video called directly
\* A caller that has set up the folders and the log as main does and calls
\* compress_video for one name without main's own look into the skipped
\* area; it treats the result as main does, and main may be run afterwards.
DirectInit ==
    /\ platform \in Platforms
    /\ workDir \in [Names -> {"absent", "file", "dangling"}]
    /\ srcSize \in [Names -> SrcSizes]
    /\ \A f \in Names : workDir[f] # "file" => srcSize[f] = 0
    /\ skippedDir \in SUBSET Names
    /\ outDir = [f \in Names |-> NoFile]
    /\ logFile = <<HeaderRow>>
    /\ logExists = TRUE
    /\ proc = [f \in Names |-> "none"]
    /\ rc = [f \in Names |-> RcNone]
    /\ fd = [f \in Names |-> "none"]
    /\ pipe = <<>>
    /\ run = 1
    /\ mainPc = "job"
    /\ \E f \in Names : files = <<f>>
    /\ idx = 1
    /\ pbar = 0
    /\ cvPc = "entry"
    /\ origSize = Unset
    /\ duration = "unknown"
    /\ result = <<0, 0, FALSE>>
    /\ emptyReads = 0
    /\ outcome = NoOutcome
    /\ rowsRun = Zero
    /\ endsRun = Zero
    /\ intJob = ""
    /\ prev = [part |-> Partition, done |-> FALSE, outcome |-> NoOutcome]
    /\ call = NoCall

\* Behaviours that start with main or with a direct call of compress_video.
DirectSpec == (Init \/ DirectInit) /\ [][Next]_vars

\* ------------------------------------------- the helper functions
\* A time string is what lies between its separators (parts, each a
\* sequence of characters) and the separators themselves (':' or '.').
Digits == <<"0", "1", "2", "3", "4", "5", "6", "7", "8", "9">>

DigitVal(ch) == (CHOOSE i \in 1..Len(Digits) : Digits[i] = ch) - 1

IsDigit(ch) == \E i \in 1..Len(Digits) : Digits[i] = ch

\* Components a time string of the model is built from.
Components == {<<"0", "0">>, <<"0", "1">>, <<"3", "0">>, <<"5", "0">>,
               <<"a", "b", "c">>}

Separators == {":", "."}

\* Most components a time string of the model has.
MaxParts == 5

\* re.split(r'[:.]', time_str): the components, whichever separator stood
\* between them.
re_split(str) == str.parts

\* int(x) and float(x) succeed on a non-empty run of decimal digits; every
\* other component of the model makes them raise ValueError.
Numeric(c) == Len(c) > 0 /\ \A i \in 1..Len(c) : IsDigit(c[i])

RECURSIVE NumberOf(_)
NumberOf(c) ==
    IF c = <<>> THEN 0
    ELSE 10 * NumberOf(SubSeq(c, 1, Len(c) - 1)) + DigitVal(c[Len(c)])

\* parse_time: <<hours, minutes, seconds>>; an exception of int or float
\* is caught and gives <<0, 0, 0>>, as does every other number of parts.
parse_time(time_str) ==
    LET parts == re_split(time_str) IN
      IF Len(parts) = 3
        THEN IF Numeric(parts[1]) /\ Numeric(parts[2])
               THEN <<0, NumberOf(parts[1]), NumberOf(parts[2])>>
               ELSE <<0, 0, 0>>
      ELSE IF Len(parts) >= 4
        THEN IF Numeric(parts[1]) /\ Numeric(parts[2]) /\ Numeric(parts[3])
               THEN <<NumberOf(parts[1]), NumberOf(parts[2]), NumberOf(parts[3])>>
               ELSE <<0, 0, 0>>
      ELSE <<0, 0, 0>>

\* timedelta(hours=h, minutes=m, seconds=s).total_seconds(), as the callers
\* of parse_time compute it, in hundredths of a second.
total_seconds(hms) == (hms[1] * 3600 + hms[2] * 60 + hms[3]) * 100

\* Encoder names the listing of 'ffmpeg -encoders' may hold, in either case.
Vendors == {"nvenc", "amf", "qsv", "x264"}
EncoderNames == [id : Vendors, upper : BOOLEAN]

\* How the listing query can end: exit status 0, a non-zero exit status
\* (CalledProcessError), or no ffmpeg to run (FileNotFoundError).
QueryResults == {"ok", "nonzero", "notfound"}

\* result.stdout.lower()
Lower(listing) == {[id |-> e.id, upper |-> FALSE] : e \in listing}

\* '<vendor>' in encoders
Contains(encoders, v) == \E e \in encoders : e.id = v /\ ~e.upper

\* A faulty get_gpu_type: amf is looked for before nvenc.
get_gpu_type_amd_first(query, listing) ==
    IF query # "ok" THEN "cpu"
    ELSE LET encoders == Lower(listing) IN
           IF Contains(encoders, "amf") THEN "amd"
           ELSE IF Contains(encoders, "nvenc") THEN "nvidia"
           ELSE IF Contains(encoders, "qsv") THEN "intel"
           ELSE "cpu"

\* get_gpu_type: an exception of subprocess.run is caught and gives 'cpu'.
get_gpu_type(query, listing) ==
    IF query # "ok" THEN "cpu"
    ELSE LET encoders == Lower(listing) IN
           IF Contains(encoders, "nvenc") THEN "nvidia"
           ELSE IF Contains(encoders, "amf") THEN "amd"
           ELSE IF Contains(encoders, "qsv") THEN "intel"
           ELSE "cpu"

\* A helper is about to be called on its own; the batch is not running.
FnInit ==
    /\ \/ \E n \in 1..MaxParts :
             \E ps \in [1..n -> Components], ss \in [1..(n - 1) -> Separators] :
               call = [fn |-> "parse_time", arg |-> [parts |-> ps, seps |-> ss],
                       ret |-> <<>>]
       \/ \E q \in QueryResults, l \in SUBSET EncoderNames :
             call = [fn |-> "get_gpu_type", arg |-> <<q, l>>, ret |-> <<>>]
    /\ platform = "posix"
    /\ workDir = [f \in Names |-> "absent"]
    /\ srcSize = [f \in Names |-> 0]
    /\ skippedDir = {}
    /\ outDir = [f \in Names |-> NoFile]
    /\ logFile = <<>>
    /\ logExists = FALSE
    /\ proc = [f \in Names |-> "none"]
    /\ rc = [f \in Names |-> RcNone]
    /\ fd = [f \in Names |-> "none"]
    /\ pipe = <<>>
    /\ run = 0
    /\ mainPc = "idle"
    /\ files = <<>>
    /\ idx = 1
    /\ pbar = 0
    /\ cvPc = "none"
    /\ origSize = Unset
    /\ duration = "unknown"
    /\ result = <<0, 0, FALSE>>
    /\ emptyReads = 0
    /\ outcome = NoOutcome
    /\ rowsRun = Zero
    /\ endsRun = Zero
    /\ intJob = ""
    /\ prev = [part |-> Partition, done |-> FALSE, outcome |-> NoOutcome]

programVars == <<platform, workDir, srcSize, skippedDir, outDir, logFile,
                 logExists, proc, rc, fd, pipe, run, mainPc, files, idx, pbar,
                 cvPc, origSize, duration, result, emptyReads, outcome,
                 rowsRun, endsRun, intJob, prev>>

CallParseTime ==
    /\ call.fn = "parse_time"
    /\ call.ret = <<>>
    /\ call' = [call EXCEPT !.ret = <<parse_time(call.arg)>>]
    /\ UNCHANGED programVars

CallGetGpuType ==
    /\ call.fn = "get_gpu_type"
    /\ call.ret = <<>>
    /\ call' = [call EXCEPT !.ret = <<get_gpu_type(call.arg[1], call.arg[2])>>]
    /\ UNCHANGED programVars

FnNext ==
    \/ CallParseTime
    \/ CallGetGpuType

FnSpec == FnInit /\ [][FnNext]_vars

\* ------------------------------------------------------------ claims
\* The job of name f is under way and has launched its encoder.
InJob(f) ==
    /\ mainPc = "job"
    /\ cvPc \in {"duration", "progress", "check", "handler"}
    /\ files[idx] = f

\* compress_video has just returned for name f.
Returned(f) == mainPc = "returned" /\ files[idx] = f

\* C1: a job whose encoder has exited with a non-zero status returns, and
\* when it has returned no destination file is left and the source is in
\* the skipped area (unless the user interrupts the batch first).
C1_NonZeroExitCleansUp ==
    \A f \in Names :
        (InJob(f) /\ proc[f] = "exited" /\ rc[f] # 0)
            ~> \/ Returned(f) /\ outDir[f] = NoFile /\ f \in skippedDir
               \/ mainPc = "aborted"

\* C4: once the batch loop has started, the final summary is written in the
\* end, whatever the jobs do (unless the user interrupts the batch).
C4_BatchReachesSummary ==
    (mainPc \in {"loop", "job", "returned", "raised"})
        ~> (mainPc \in {"done", "aborted"})

\* C5: when the duration loop makes an empty read at end of stream, it
\* ends with the duration unknown and the job goes on to the progress loop.
C5_EofEndsDurationLoop ==
    [][(/\ mainPc = "job"
        /\ cvPc = "duration"
        /\ pipe = <<>>
        /\ emptyReads' # emptyReads
        /\ mainPc' = "job")
            => (cvPc' = "progress" /\ duration' = "unknown")]_vars

\* C2: when compress_video returns for a job whose encoder had exited with
\* status 0 and a destination at least as large as the source, the
\* destination is removed, the source is in the skipped area and no longer
\* in the working directory, and the result is skipped with both sizes
\* equal to the original size.
C2_IneffectiveResult ==
    [][\A f \in Names :
        (/\ InJob(f)
         /\ proc[f] = "exited"
         /\ rc[f] = 0
         /\ outDir[f] # NoFile
         /\ outDir[f] >= srcSize[f]
         /\ mainPc' = "returned")
            => (/\ outDir'[f] = NoFile
                /\ f \in skippedDir'
                /\ workDir'[f] = "absent"
                /\ result' = <<srcSize[f], srcSize[f], TRUE>>)]_vars

\* C3: while a job has an encoder launched and has not begun to clean up,
\* its candidate's name is not in the skipped area: no encoder is launched
\* for a candidate that was in the skipped area when the loop reached it.
C3_NoLaunchForSkipped ==
    \A f \in Names :
        (/\ mainPc = "job"
         /\ cvPc \in {"duration", "progress", "check"}
         /\ files[idx] = f)
            => f \notin skippedDir

\* C3 witness: in a second run the loop has passed over a candidate that
\* lies in the working directory and in the skipped area, without an encoder.
C3_Witness ==
    \E f \in Names :
        /\ run = 2
        /\ outcome[f] = "already"
        /\ workDir[f] = "file"
        /\ f \in skippedDir
        /\ proc[f] = "none"

\* C6: after an interrupt that hit a job whose destination was partly
\* written, no destination file of that job is left.
C6_NoPartialAfterInterrupt ==
    (mainPc = "aborted" /\ intJob # "") => outDir[intJob] = NoFile

\* The result an ineffective encode of name f returns.
IneffectiveResult(f) == <<srcSize[f], srcSize[f], TRUE>>

\* C7: the result returned for a file whose job failed differs from the
\* result an ineffective encode of that file returns, and main does not
\* report it with the outcome line of an ineffective encode.
C7_FailedDistinct ==
    \A f \in Names :
        (Returned(f) /\ outcome[f] = "failed" /\ workDir[f] = "absent")
            => /\ result # IneffectiveResult(f)
               /\ Message(result) # Message(IneffectiveResult(f))

\* C8: in a batch run no candidate's iteration ends twice and no candidate
\* gets two rows; a candidate whose iteration has ended has one row, or
\* none if the loop found it in the skipped area; and when the summary is
\* written every enumerated candidate's iteration has ended.
C8_OneOutcomeOneRow ==
    /\ \A f \in Names : endsRun[f] <= 1 /\ rowsRun[f] <= 1
    /\ \A f \in Names :
          rowsRun[f] = IF endsRun[f] = 1 /\ outcome[f] # "already" THEN 1 ELSE 0
    /\ mainPc = "done" => \A i \in 1..Len(files) : endsRun[files[i]] = 1

\* C8 witness: a finished run in which one candidate failed through main's
\* except clause, another was compressed, and each has its one row.
C8_Witness ==
    /\ mainPc = "done"
    /\ \E f, g \in Names :
          /\ outcome[f] = "failed"
          /\ workDir[f] = "file"
          /\ outcome[g] = "compressed"
          /\ rowsRun[f] = 1
          /\ rowsRun[g] = 1

\* C9: at most one encoder is alive at any time, and when compress_video
\* has returned or raised, the encoder it launched has exited.
C9_OneEncoderAtATime ==
    /\ Cardinality({f \in Names : Alive(f)}) <= 1
    /\ mainPc \in {"returned", "raised"} => ~Alive(files[idx])

\* Every file that had a job in this run and in the run before ended both
\* on the same path.
SameBehaviour ==
    \A f \in Names :
        (/\ outcome[f] \notin {"none", "already"}
         /\ prev.outcome[f] \notin {"none", "already"})
            => outcome[f] = prev.outcome[f]

\* C10: when a second run has finished after a finished first run, and
\* every file encoded in both behaved the same, the partition between the
\* skipped and the compressed area is the one the first run left.
C10_SecondRunSamePartition ==
    (/\ run = 2
     /\ mainPc \in {"done", "empty"}
     /\ prev.done
     /\ SameBehaviour)
        => Partition = prev.part

\* A returned call of parse_time.
ParseTimeReturned == call.fn = "parse_time" /\ call.ret # <<>>

\* The string has the form HH:MM:SS.ss or MM:SS.ss.
ValidTime(str) ==
    /\ \A i \in 1..Len(str.parts) : Numeric(str.parts[i]) /\ Len(str.parts[i]) = 2
    /\ \/ Len(str.parts) = 4 /\ str.seps = <<":", ":", ".">>
       \/ Len(str.parts) = 3 /\ str.seps = <<":", ".">>

\* The arithmetic expansion of a valid time string, in hundredths of a
\* second; the last component is the two-digit fraction.
Expansion(str) ==
    LET n == Len(str.parts)
        P(i) == NumberOf(str.parts[i])
    IN IF n = 4
         THEN (P(1) * 3600 + P(2) * 60 + P(3)) * 100 + P(4)
         ELSE (P(1) * 60 + P(2)) * 100 + P(3)

\* C12: for a valid time string, the seconds the callers derive from the
\* value of parse_time equal the arithmetic expansion of the string,
\* fraction included.
C12_ParseTimeExpansion ==
    (ParseTimeReturned /\ ValidTime(call.arg))
        => total_seconds(call.ret[1]) = Expansion(call.arg)

\* A returned call of get_gpu_type.
GpuTypeReturned == call.fn = "get_gpu_type" /\ call.ret # <<>>

\* The vendor identifiers in priority order, and the profile of each.
VendorPriority == <<"nvenc", "amf", "qsv">>
VendorProfile == <<"nvidia", "amd", "intel">>

\* The profile the listing calls for: that of the first identifier of the
\* priority order that occurs in it in either case, cpu if none does or if
\* the query failed.
ExpectedProfile(query, listing) ==
    LET found == {i \in 1..Len(VendorPriority) :
                     \E e \in listing : e.id = VendorPriority[i]}
    IN IF query # "ok" \/ found = {} THEN "cpu"
       ELSE VendorProfile[CHOOSE i \in found : \A j \in found : i <= j]

\* C13: get_gpu_type returns the profile of the first identifier in the
\* order nvenc, amf, qsv that occurs in the lower-cased listing, cpu when
\* none occurs, and cpu whenever the query fails.
C13_GpuPriority ==
    GpuTypeReturned => call.ret[1] = ExpectedProfile(call.arg[1], call.arg[2])

\* C13 witness: a listing that names nvenc in upper case only, together
\* with amf and qsv, has given nvidia.
C13_Witness ==
    /\ GpuTypeReturned
    /\ call.arg[1] = "ok"
    /\ [id |-> "nvenc", upper |-> TRUE] \in call.arg[2]
    /\ [id |-> "nvenc", upper |-> FALSE] \notin call.arg[2]
    /\ \E e \in call.arg[2] : e.id = "amf"
    /\ \E e \in call.arg[2] : e.id = "qsv"
    /\ call.ret[1] = "nvidia"

\* The string has fewer than three components, or a component that is not
\* a number.
MalformedTime(str) ==
    \/ Len(str.parts) < 3
    \/ \E i \in 1..Len(str.parts) : ~Numeric(str.parts[i])

\* C14: for a malformed time string parse_time gives 0 hours, 0 minutes
\* and 0 seconds.
C14_MalformedTimeIsZero ==
    (ParseTimeReturned /\ MalformedTime(call.arg)) => call.ret[1] = <<0, 0, 0>>

\* Sequence a is an initial part of sequence b.
IsPrefix(a, b) == Len(a) <= Len(b) /\ SubSeq(b, 1, Len(a)) = a

\* Header rows in a log.
HeaderCount(log) == Cardinality({i \in 1..Len(log) : log[i].hdr})

\* C11: no step removes or changes a row of an existing log, rows are only
\* added at the end, and a log that exists has the header as its first row
\* and nowhere else, however many runs have used it.
C11_LogAppendOnly ==
    [][/\ logExists => (logExists' /\ IsPrefix(logFile, logFile'))
       /\ logExists' => (logFile'[1] = HeaderRow /\ HeaderCount(logFile') = 1)]_vars

\* C11 witness: a second run has finished and added its row for a file to
\* a log that holds the header and that file's row of the first run.
C11_Witness ==
    /\ run = 2
    /\ mainPc = "done"
    /\ HeaderCount(logFile) = 1
    /\ \E f \in Names :
          /\ rowsRun[f] = 1
          /\ prev.outcome[f] = "compressed"
          /\ Cardinality({i \in 1..Len(logFile) : logFile[i].file = f}) = 2

\* C15: when the return code is checked, the process has exited, its exit
\* status is known and no line of its diagnostic stream is unread.
C15_StatusAfterDrain ==
    (mainPc = "job" /\ cvPc = "check")
        => /\ proc[files[idx]] = "exited"
           /\ rc[files[idx]] # RcNone
           /\ pipe = <<>>

\* C15 witness: the check is reached after the duration line and further
\* lines were read, the last reads being empty ones while the process was
\* still alive.
C15_Witness ==
    /\ mainPc = "job"
    /\ cvPc = "check"
    /\ duration = "known"
    /\ emptyReads > 0
    /\ outDir[files[idx]] # NoFile

\* C16: when compress_video returns for a job whose encoder had exited
\* with status 0 and left a destination, the result is not skipped exactly
\* when the destination is smaller than the source; it then carries both
\* sizes, and the destination and the source stay where they are.  A
\* result that is not skipped has an original size above 0 and a
\* compressed size below it.
C16_CompressedIffSmaller ==
    [][/\ \A f \in Names :
            (/\ InJob(f)
             /\ proc[f] = "exited"
             /\ rc[f] = 0
             /\ outDir[f] # NoFile
             /\ mainPc' = "returned")
                => /\ (~result'[3]) <=> (outDir[f] < srcSize[f])
                   /\ (~result'[3]) => /\ result' = <<srcSize[f], outDir[f], FALSE>>
                                       /\ outDir'[f] = outDir[f]
                                       /\ workDir'[f] = "file"
       /\ (mainPc' = "returned" /\ ~result'[3])
            => (result'[1] > 0 /\ result'[2] < result'[1])]_vars

\* C17: when the loop passes a candidate whose name is in the skipped
\* area, the working directory, the output directory, the skipped area,
\* the log and the processes are left as they were; and when
\* compress_video, called for a name that is in the skipped area, returns,
\* it returns zero sizes with skipped = true and has launched no process.
C17_SkippedCandidateNoWork ==
    [][/\ (/\ mainPc = "loop"
           /\ idx <= Len(files)
           /\ files[idx] \in skippedDir
           /\ idx' # idx)
              => UNCHANGED <<workDir, outDir, skippedDir, logFile, logExists,
                             proc, fd>>
       /\ (/\ mainPc = "job"
           /\ files[idx] \in skippedDir
           /\ mainPc' = "returned")
              => (result' = <<0, 0, TRUE>> /\ proc' = proc)]_vars

\* C17 witness: a name that lies in the working directory and in the
\* skipped area was handed to compress_video directly, which returned at
\* its own look into the skipped area, and the loop of a later run of main
\* has passed it over.
C17_Witness ==
    \E f \in Names :
        /\ run = 2
        /\ prev.outcome[f] = "already_cv"
        /\ outcome[f] = "already"
        /\ workDir[f] = "file"
        /\ f \in skippedDir
        /\ proc[f] = "none"

\* C18: the aggregate progress counter never exceeds the number of
\* enumerated candidates and equals it when the loop has ended.
C18_ProgressOncePerCandidate ==
    (mainPc \in {"loop", "job", "returned", "raised", "done"})
        => /\ pbar <= Len(files)
           /\ mainPc = "done" => pbar = Len(files)

\* C19: no step deletes or overwrites a source file: a file of the working
\* directory stays there or moves to the skipped area under a name that
\* was not there, a file of the skipped area stays there, and no file
\* appears in either place.
C19_SourcesConserved ==
    [][\A f \in Names :
          /\ workDir[f] = "file"
                => \/ workDir'[f] = "file" /\ (f \in skippedDir' <=> f \in skippedDir)
                   \/ workDir'[f] = "absent" /\ f \notin skippedDir /\ f \in skippedDir'
          /\ workDir[f] # "file"
                => workDir'[f] = workDir[f] /\ (f \in skippedDir' <=> f \in skippedDir)
          /\ srcSize'[f] = srcSize[f]]_vars

\* C19 witness: in one run a source was moved to the skipped area after an
\* ineffective encode and another after a failed one.
C19_Witness ==
    \E f, g \in Names :
        /\ outcome[f] = "ineffective"
        /\ outcome[g] = "failed"
        /\ workDir[f] = "absent" /\ f \in skippedDir
        /\ workDir[g] = "absent" /\ g \in skippedDir

\* C20: a destination file that a finished run left for a file it
\* compressed is in the output directory when the next run has finished.
C20_EarlierOutputKept ==
    (run = 2 /\ mainPc = "done" /\ prev.done)
        => \A f \in Names :
              (prev.outcome[f] = "compressed" /\ f \in prev.part.compressed)
                  => outDir[f] # NoFile

====
